---- MODULE Spec2Model ----
(***************************************************************************)
(* Model of rscli (src/src/main.rs): weighted random sampling of the rows  *)
(* of a tab-separated file through a bounded BinaryHeap<Line>.             *)
(*                                                                         *)
(* f64 values are modelled exactly on a small grid: Fin(n) is the number   *)
(* n / Scale, next to +inf, -inf, NaN and -0.0.  Every operation below is  *)
(* the IEEE-754 operation restricted to that grid (all products and        *)
(* quotients that occur are exact in f64 as well, being small integers     *)
(* times powers of two).                                                   *)
(***************************************************************************)
EXTENDS Integers, Sequences, FiniteSets

(* ------------------------------ bounds -------------------------------- *)

\* longest input stream (number of data rows) explored
MaxLen == 3
\* largest --sample-count explored
MaxK == 2

(* ------------------------------ f64 ----------------------------------- *)

Scale == 2 * 2

Fin(n) == [k |-> "fin", n |-> n]
PInf == [k |-> "pinf", n |-> 0]
NInf == [k |-> "ninf", n |-> 0]
NaN == [k |-> "nan", n |-> 0]
NegZero == [k |-> "nzero", n |-> 0]

FOne == Fin(Scale)
FZero == Fin(0)
FHalf == Fin(Scale \div 2)

IsNaN(x) == x.k = "nan"
IsInf(x) == x.k \in {"pinf", "ninf"}
IsZero(x) == x.k = "nzero" \/ (x.k = "fin" /\ x.n = 0)

\* sign bit: TRUE when negative (including -0.0 and -inf)
SignNeg(x) == x.k \in {"ninf", "nzero"} \/ (x.k = "fin" /\ x.n < 0)

Abs(n) == IF n < 0 THEN -n ELSE n

MkInf(neg) == IF neg THEN NInf ELSE PInf
MkZero(neg) == IF neg THEN NegZero ELSE FZero
MkFin(neg, mag) == IF mag = 0 THEN MkZero(neg) ELSE Fin(IF neg THEN -mag ELSE mag)

\* a / b for a = 1.0 only is what the program uses (1.0 / weight)
FRecip(w) ==
    CASE IsNaN(w) -> NaN
      [] IsInf(w) -> MkZero(SignNeg(w))
      [] IsZero(w) -> MkInf(SignNeg(w))
      [] OTHER -> MkFin(SignNeg(w), (Scale * Scale) \div Abs(w.n))

\* a * b
FMul(a, b) ==
    LET neg == SignNeg(a) # SignNeg(b) IN
    CASE IsNaN(a) \/ IsNaN(b) -> NaN
      [] (IsInf(a) /\ IsZero(b)) \/ (IsZero(a) /\ IsInf(b)) -> NaN
      [] IsInf(a) \/ IsInf(b) -> MkInf(neg)
      [] OTHER -> MkFin(neg, (Abs(a.n) * Abs(b.n)) \div Scale)

\* exponent e with m / Scale = 2^e, for m a power of two on the grid
RECURSIVE ILog2(_)
ILog2(m) ==
    IF m = Scale THEN 0
    ELSE IF m < Scale THEN ILog2(2 * m) - 1
    ELSE ILog2(m \div 2) + 1

\* f64::log2
FLog2(u) ==
    CASE IsNaN(u) -> NaN
      [] IsZero(u) -> NInf
      [] SignNeg(u) -> NaN
      [] u.k = "pinf" -> PInf
      [] OTHER -> LET e == ILog2(u.n) IN MkFin(e < 0, Abs(e) * Scale)

\* position of a non-NaN value on the number line, -0.0 = 0.0
FRank(x) ==
    CASE x.k = "ninf" -> [inf |-> -1, n |-> 0]
      [] x.k = "pinf" -> [inf |-> 1, n |-> 0]
      [] OTHER -> [inf |-> 0, n |-> x.n]

FLt(a, b) ==
    /\ ~IsNaN(a)
    /\ ~IsNaN(b)
    /\ \/ FRank(a).inf < FRank(b).inf
       \/ FRank(a).inf = FRank(b).inf /\ FRank(a).n < FRank(b).n

\* f64 == (false for NaN, true for 0.0 == -0.0)
FEq(a, b) == ~IsNaN(a) /\ ~IsNaN(b) /\ FRank(a) = FRank(b)

FGt(a, b) == FLt(b, a)

\* f64::partial_cmp: "None" stands for Option::None
FPartialCmp(a, b) ==
    CASE FLt(a, b) -> "Less"
      [] FEq(a, b) -> "Equal"
      [] FGt(a, b) -> "Greater"
      [] OTHER -> "None"

\* usize::cmp
UCmp(a, b) == IF a < b THEN "Less" ELSE IF a = b THEN "Equal" ELSE "Greater"

(* ------------------------------ inputs -------------------------------- *)

\* Option<T>: None is <<>>, Some(x) is <<x>>
None == <<>>
Some(x) == <<x>>

\* the input files explored, each named by its header row (the schema): one
\* without and one with a weight column
Files == {<<"id">>, <<"id", "w">>}

\* the rows explored, each a StringRecord with one field per header column:
\* identifier A (the one --include / --exclude may name) or B and, in the
\* file with a weight column, a weight text: a number or empty for A, zero or
\* the literal NaN for B
Records(headers) ==
    IF Len(headers) = 1 THEN {<<"A">>, <<"B">>}
    ELSE {<<"A", w>> : w \in {"1", ""}} \cup {<<"B", w>> : w \in {"0", "NaN"}}

\* what the file system and the csv reader answer: the file opens and its
\* header row reads ("ok"), the file cannot be opened (line 100), the header
\* row cannot be read as a StringRecord (reader.headers() is an Err, lines
\* 110, 118 and 174; the rows still read), or the file opened once cannot be
\* opened again (line 138)
FileStates == {"ok", "unopenable", "bad_header", "vanished"}

\* values of rng.gen::<f64>() explored for the key draw: 0, 1/4, 1/2
KeyDraws == {FZero, Fin(Scale \div 4), FHalf}
\* values of rng.gen::<f64>() explored inside Line::cmp: 1/4 and 3/4
CoinDraws == {Fin(Scale \div 4), Fin(3 * (Scale \div 4))}

\* the command lines explored (struct Cli; file stands for the header of the
\* file it names).  Runs without --weights read the file without a weight
\* column: every row of the other file would weigh 1.0 there.
ArgSets ==
    {a \in [file : Files,
            sample_count : 0..MaxK,
            weights : {None, Some("w")},
            include : {None, Some({"A"})},
            exclude : {None, Some({"A"})},
            id_col : {None, Some("zz")}] :
        a.weights = None => Len(a.file) = 1}

\* str::parse::<f64>() on the weight texts above: Some(value) or None
ParseF64(s) ==
    CASE s = "0" -> Some(FZero)
      [] s = "1" -> Some(FOne)
      [] s = "2" -> Some(Fin(2 * Scale))
      [] s = "-1" -> Some(Fin(-Scale))
      [] s = "NaN" -> Some(NaN)
      [] s = "inf" -> Some(PInf)
      [] OTHER -> None

\* StringRecord::get(i), i counted from 0
RecordGet(record, i) == IF i < Len(record) THEN Some(record[i + 1]) ELSE None

\* a lookup that falls back to the first column when the name is absent
Position_OrFirst(headers, name) ==
    LET hits == {j \in 1..Len(headers) : headers[j] = name} IN
    IF hits = {} THEN Some(0)
    ELSE Some((CHOOSE j \in hits : \A h \in hits : j <= h) - 1)

\* headers.iter().position(|r| r == name), counted from 0
Position(headers, name) ==
    LET hits == {j \in 1..Len(headers) : headers[j] = name} IN
    IF hits = {} THEN None
    ELSE Some((CHOOSE j \in hits : \A h \in hits : j <= h) - 1)

\* fn get_weight(column, record) -> f64
get_weight(column, record) ==
    IF column = None THEN FOne
    ELSE LET field == RecordGet(record, column[1])
             parsed == IF field = None THEN None ELSE ParseF64(field[1])
         IN IF parsed = None THEN NInf ELSE parsed[1]

\* Option<Vec<String>> to the Vec the loop searches (None => vec![])
VecOf(opt) == IF opt = None THEN {} ELSE opt[1]

(* ------------------------------ Line ---------------------------------- *)

\* impl Ord for Line: cmp(self, other); coin is the value rng.gen::<f64>()
\* returns if the None arm is taken
cmp(self, other, coin) ==
    LET o == FPartialCmp(other.position_index, self.position_index) IN
    IF o # "None" THEN o
    ELSE IF FGt(coin, FHalf)
         THEN UCmp(other.tie_breaker, self.tie_breaker)
         ELSE UCmp(self.tie_breaker, other.tie_breaker)

\* TRUE when cmp(self, other) takes the None arm and draws from the rng
NeedsCoin(self, other) ==
    FPartialCmp(other.position_index, self.position_index) = "None"

\* the rng values cmp(self, other) may see: one draw in the None arm, no
\* draw otherwise (FZero then stands for "not drawn")
Coins(self, other) == IF NeedsCoin(self, other) THEN CoinDraws ELSE {FZero}

CoinCount(self, other) == IF NeedsCoin(self, other) THEN 1 ELSE 0

\* a <= that holds only for Less
le_strict(self, other, coin) == cmp(self, other, coin) = "Less"

\* PartialOrd::le through partial_cmp = Some(cmp)
le(self, other, coin) == cmp(self, other, coin) \in {"Less", "Equal"}

(* --------------------------- BinaryHeap ------------------------------- *)
\* The heap is its backing Vec, positions counted from 0.  Each operation
\* yields the set of results over the coin draws its comparisons consume:
\* [data, flips] with flips the number of draws consumed.

At(d, p) == d[p + 1]
Swap(d, p, q) == [d EXCEPT ![p + 1] = d[q + 1], ![q + 1] = d[p + 1]]

\* BinaryHeap::sift_up(start, pos)
RECURSIVE sift_up(_, _, _, _)
sift_up(d, start, pos, flips) ==
    IF pos <= start THEN {[data |-> d, flips |-> flips]}
    ELSE LET parent == (pos - 1) \div 2
             f == flips + CoinCount(At(d, pos), At(d, parent))
         IN UNION { IF le(At(d, pos), At(d, parent), c)
                    THEN {[data |-> d, flips |-> f]}
                    ELSE sift_up(Swap(d, pos, parent), start, parent, f)
                    : c \in Coins(At(d, pos), At(d, parent)) }

\* the while loop of BinaryHeap::sift_down_to_bottom: [data, pos, flips]
RECURSIVE sift_down_loop(_, _, _, _)
sift_down_loop(d, pos, end, flips) ==
    LET child == 2 * pos + 1 IN
    IF end >= 2 /\ child <= end - 2
    THEN LET f == flips + CoinCount(At(d, child), At(d, child + 1)) IN
         UNION { LET c2 == IF le(At(d, child), At(d, child + 1), c)
                           THEN child + 1 ELSE child
                 IN sift_down_loop(Swap(d, pos, c2), c2, end, f)
                 : c \in Coins(At(d, child), At(d, child + 1)) }
    ELSE IF child = end - 1
         THEN {[data |-> Swap(d, pos, child), pos |-> child, flips |-> flips]}
         ELSE {[data |-> d, pos |-> pos, flips |-> flips]}

\* BinaryHeap::sift_down_to_bottom(0)
sift_down_to_bottom(d) ==
    UNION { sift_up(r.data, 0, r.pos, r.flips)
            : r \in sift_down_loop(d, 0, Len(d), 0) }

\* BinaryHeap::push(item)
heap_push(d, item) == sift_up(Append(d, item), 0, Len(d), 0)

\* BinaryHeap::pop() on a non-empty heap: [item, data, flips]
heap_pop(d) ==
    LET last == d[Len(d)]
        rest == SubSeq(d, 1, Len(d) - 1)
    IN IF rest = <<>> THEN {[item |-> last, data |-> rest, flips |-> 0]}
       ELSE { [item |-> rest[1], data |-> r.data, flips |-> r.flips]
              : r \in sift_down_to_bottom([rest EXCEPT ![1] = last]) }

(* ------------------------------ state --------------------------------- *)

VARIABLES
    args,        \* struct Cli as parsed by DataProc::new
    file_state,  \* what opening the file and reading its header row answer
    pc,          \* position in process_data
    err,         \* how the run failed, "" while it has not
    weight_col,  \* Option<usize> resolved from args.weights
    id_col,      \* usize resolved from args.id_col
    heap,        \* BinaryHeap<Line>, as its backing Vec
    i,           \* the counter stored in Line.tie_breaker
    out,         \* rows that reached the output sink, in order
    nread,       \* history: number of rows taken from reader.records()
    dropped,     \* history: Lines returned by heap.pop()
    rng_calls,   \* history: rng draws so far, [key, tie]
    stream       \* history: the rows read so far, in order, each with the
                 \* tie_breaker of the Line built for it (None when no
                 \* Line was pushed for it)

vars == <<args, file_state, pc, err, weight_col, id_col, heap, i, out, nread, dropped, rng_calls, stream>>

include == VecOf(args.include)
exclude == VecOf(args.exclude)

\* struct Line
MkLine(record, weight, randomness, index, tb) ==
    [record |-> record, weight |-> weight, randomness |-> randomness,
     position_index |-> index, tie_breaker |-> tb]

\* exclusion that gives way to --include
is_excluded_unless_included(id, exc) == id \in exc /\ id \notin include

\* a filter that skips nothing
is_excluded_never(id, exc) == FALSE

\* line 144: exclude.contains(id), the row is skipped
is_excluded(id, exc) == id \in exc

\* line 147: include.contains(id), reached only by rows not skipped
is_included(id, inc) == id \in inc

\* the sampling key computed for a row (lines 147-151)
KeyFormula(weight, u) == FMul(FRecip(weight), FLog2(u))

\* a key that ignores --include
position_index_unforced(forced, weight, u) == KeyFormula(weight, u)

\* lines 147-151: the sentinel for an included row, the formula otherwise
position_index(forced, weight, u) == IF forced THEN PInf ELSE KeyFormula(weight, u)

\* a draw taken only for the rows whose key uses it
draws_taken_if_keyed(forced) == IF forced THEN 0 ELSE 1

\* line 146: rng.gen::<f64>() runs for every row not skipped, before the
\* include test of line 147
draws_taken(forced) == 1

\* a tie_breaker that is the row number in the file
tie_breaker_from_row(counter) == nread

\* line 160: tie_breaker: i
tie_breaker_at(counter) == counter

\* the guard of the panic (line 152)
IsZeroIndex(index) == FEq(index, FZero)

\* an eviction that lets the heap grow to one more than the sample count
OverFull_Late(len, k) == len > k + 1

\* an eviction that starts one row early
OverFull_Early(len, k) == len >= k

\* the guard of the eviction (line 165)
OverFull(len, k) == len > k

Init ==
    /\ args \in ArgSets
    /\ file_state \in FileStates
    /\ pc = "init"
    /\ err = ""
    /\ weight_col = None
    /\ id_col = 0
    /\ heap = <<>>
    /\ i = 0
    /\ out = <<>>
    /\ nread = 0
    /\ dropped = {}
    /\ rng_calls = [key |-> 0, tie |-> 0]
    /\ stream = <<>>

\* lines 104-138: open the file, resolve the weight and id columns against
\* the header, open the file again.  written is what this part of
\* process_data sends to the csv writer.
SetupWriting(written) ==
    /\ pc = "init"
    /\ LET fs == file_state
           wc == IF args.weights = None THEN Some(None)
                 ELSE IF Position(args.file, args.weights[1]) = None THEN None
                 ELSE Some(Position(args.file, args.weights[1]))
           ic == IF args.id_col = None THEN Some(0)
                 ELSE Position(args.file, args.id_col[1])
       IN IF fs = "unopenable"
          THEN /\ pc' = "failed"
               /\ err' = "panic: Failed to read the file"
               /\ UNCHANGED <<weight_col, id_col>>
          ELSE IF fs = "bad_header" /\ args.weights # None
          THEN /\ pc' = "failed"
               /\ err' = "csv"
               /\ UNCHANGED <<weight_col, id_col>>
          ELSE IF wc = None
          THEN /\ pc' = "failed"
               /\ err' = "NotFound"
               /\ UNCHANGED <<weight_col, id_col>>
          ELSE IF fs = "bad_header" /\ args.id_col # None
          THEN /\ pc' = "failed"
               /\ err' = "csv"
               /\ weight_col' = wc[1]
               /\ UNCHANGED id_col
          ELSE IF ic = None
          THEN /\ pc' = "failed"
               /\ err' = "panic: Id column not found"
               /\ weight_col' = wc[1]
               /\ UNCHANGED id_col
          ELSE IF fs = "vanished"
          THEN /\ pc' = "failed"
               /\ err' = "panic: Failed to read the input file"
               /\ weight_col' = wc[1]
               /\ id_col' = ic[1]
          ELSE /\ pc' = "stream"
               /\ weight_col' = wc[1]
               /\ id_col' = ic[1]
               /\ UNCHANGED err
    /\ out' = out \o written
    /\ UNCHANGED <<args, file_state, heap, i, nread, dropped, rng_calls, stream>>

\* a process_data that writes the header row as soon as the writer exists
Setup_HeaderFirst == SetupWriting(<<args.file>>)

\* lines 104-138 write nothing: the writer is only set up (line 105)
Setup == SetupWriting(<<>>)

\* lines 142-164: one iteration of the loop up to and including i += 1
ReadRecord ==
    /\ pc = "stream"
    /\ nread < MaxLen
    /\ \E record \in Records(args.file), u \in KeyDraws :
         LET id == RecordGet(record, id_col)[1] IN
         /\ nread' = nread + 1
         /\ IF is_excluded(id, exclude)
            THEN /\ stream' = Append(stream, [record |-> record, idx |-> None])
                 /\ UNCHANGED <<pc, err, heap, i, rng_calls>>
            ELSE LET weight == get_weight(weight_col, record)
                     forced == is_included(id, include)
                     index == position_index(forced, weight, u)
                     line == MkLine(record, weight, u, index, tie_breaker_at(i))
                 IN IF IsZeroIndex(index)
                    THEN /\ pc' = "failed"
                         /\ err' = "panic: Non-zero weights required"
                         /\ rng_calls' = [rng_calls EXCEPT
                                              !.key = @ + draws_taken(forced)]
                         /\ stream' = Append(stream, [record |-> record, idx |-> None])
                         /\ UNCHANGED <<heap, i>>
                    ELSE \E r \in heap_push(heap, line) :
                           /\ heap' = r.data
                           /\ i' = i + 1
                           /\ rng_calls' = [key |-> rng_calls.key + draws_taken(forced),
                                            tie |-> rng_calls.tie + r.flips]
                           /\ stream' = Append(stream, [record |-> record,
                                                        idx |-> Some(line.tie_breaker)])
                           /\ pc' = "evict"
                           /\ UNCHANGED err
    /\ UNCHANGED <<args, file_state, weight_col, id_col, out, dropped>>

\* lines 165-170: the eviction that follows a push
Evict ==
    /\ pc = "evict"
    /\ pc' = "stream"
    /\ IF OverFull(Len(heap), args.sample_count)
       THEN \E r \in heap_pop(heap) :
              /\ heap' = r.data
              /\ dropped' = dropped \cup {r.item}
              /\ rng_calls' = [rng_calls EXCEPT !.tie = @ + r.flips]
       ELSE UNCHANGED <<heap, dropped, rng_calls>>
    /\ UNCHANGED <<args, file_state, err, weight_col, id_col, i, out, nread, stream>>

\* line 143: reader.records() yields an Err (a malformed row), returned by `?`
ReadError ==
    /\ pc = "stream"
    /\ nread < MaxLen
    /\ pc' = "failed"
    /\ err' = "csv"
    /\ nread' = nread + 1
    /\ UNCHANGED <<args, file_state, weight_col, id_col, heap, i, out, dropped, rng_calls, stream>>

\* an end of stream that runs process_data from the top again
EndOfStream_Restart ==
    /\ pc = "stream"
    /\ pc' = "init"
    /\ UNCHANGED <<args, file_state, err, weight_col, id_col, heap, i, out, nread, dropped, rng_calls, stream>>

\* line 142: reader.records() is exhausted
EndOfStream ==
    /\ pc = "stream"
    /\ pc' = "final"
    /\ UNCHANGED <<args, file_state, err, weight_col, id_col, heap, i, out, nread, dropped, rng_calls, stream>>

\* what the output sink (stdout behind the csv writer's buffer) does with the
\* bytes flushed to it: takes them all, takes none (a full device, a closed
\* pipe), or takes some and then fails
SinkStates == {"ok", "rejects", "limited"}

\* the rows process_data hands to the csv writer: the header, then
\* heap.iter() in Vec order
written_rows == <<args.file>> \o [j \in 1..Len(heap) |-> heap[j].record]

\* lines 174-180: read the header (`?`), write it and the rows (`?`), flush
\* (`?`).  out is what reached the sink: every row when all went well, none
\* when the header could not be read or the sink took nothing, a proper
\* prefix when the sink failed part way.
WriteOutput ==
    /\ pc = "final"
    /\ IF file_state = "bad_header"
       THEN /\ pc' = "failed"
            /\ err' = "csv"
            /\ UNCHANGED out
       ELSE \E sink \in SinkStates :
              CASE sink = "ok" ->
                     /\ out' = written_rows
                     /\ pc' = "done"
                     /\ UNCHANGED err
                [] sink = "rejects" ->
                     /\ pc' = "failed"
                     /\ err' = "io"
                     /\ UNCHANGED out
                [] sink = "limited" ->
                     /\ pc' = "failed"
                     /\ err' = "io"
                     /\ \E n \in 1..(Len(written_rows) - 1) :
                          out' = SubSeq(written_rows, 1, n)
    /\ UNCHANGED <<args, file_state, weight_col, id_col, heap, i, nread, dropped, rng_calls, stream>>

Next ==
    \/ Setup
    \/ ReadRecord
    \/ Evict
    \/ ReadError
    \/ EndOfStream
    \/ WriteOutput

Spec == Init /\ [][Next]_vars

(* ------------------------------ claims -------------------------------- *)

Min(a, b) == IF a < b THEN a ELSE b

\* the candidates the selector holds
Retained == {heap[j] : j \in 1..Len(heap)}

\* every candidate offered so far: still held, or popped
Offered == Retained \cup dropped

\* the identifier of a candidate's row
IdOf(line) == line.record[id_col + 1]

\* the rows written after the header
OutRows == [j \in 1..(Len(out) - 1) |-> out[j + 1]]

\* between two iterations of the loop, or after it
BetweenRecords == pc \in {"stream", "final", "done"}

\* every key draw so far was a number strictly between 0 and 1
DrawsPositive == \A l \in Offered : FGt(l.randomness, FZero)

\* C1: after every record processed, no candidate that was evicted has a key
\* strictly larger than the key of a candidate still retained (the selector
\* holds the K largest keys).  Stated for the runs whose key draws are all
\* strictly positive, the draws of probability one.
C1_TopKeysRetained ==
    (BetweenRecords /\ DrawsPositive) =>
        \A d \in dropped : \A r \in Retained :
            ~FGt(d.position_index, r.position_index)

\* C2: when the run completes, the number of rows written after the header is
\* min(K, number of rows offered to the selector).
C2_FinalSize ==
    pc = "done" => Len(out) - 1 = Min(args.sample_count, i)

\* C2 is reached in a run that offered more rows than it could keep
C2_Witness ==
    /\ pc = "done"
    /\ args.sample_count >= 1
    /\ i > args.sample_count
    /\ Len(out) - 1 = args.sample_count

\* C3 as stated, for a positive sample count K: the selector never holds more
\* than K candidates, in any state, the one between a push and the eviction
\* that follows included.
C3_NeverAboveK == args.sample_count >= 1 => Len(heap) <= args.sample_count

\* C3 amended: between iterations the selector holds at most K candidates;
\* between a push and the eviction check it holds at most K + 1.
C3_AtMostKBetweenRecords ==
    /\ pc # "evict" => Len(heap) <= args.sample_count
    /\ pc = "evict" => Len(heap) <= args.sample_count + 1

\* a full selector that has just been pushed to
C3_Witness ==
    /\ pc = "evict"
    /\ args.sample_count >= 1
    /\ Len(heap) = args.sample_count + 1

\* C4: no row whose identifier is in the exclude set is held by the selector
\* or written, also when the identifier is in the include set as well.
C4_ExcludedNeverOut ==
    /\ \A l \in Offered : IdOf(l) \notin exclude
    /\ \A j \in 1..Len(OutRows) : OutRows[j][id_col + 1] \notin exclude

\* a completed run with A both included and excluded that skipped a row and
\* wrote another
C4_Witness ==
    /\ pc = "done"
    /\ "A" \in include
    /\ "A" \in exclude
    /\ nread > i
    /\ Len(out) > 1

\* the candidates offered for rows named by --include
ForcedLines == {l \in Offered : IdOf(l) \in include}

\* C5, in the runs where the sample has room for every such row and the key
\* draws are strictly positive: when the run completes, every row whose
\* identifier is in the include set and not in the exclude set has been
\* written.
C5_ForcedIncludesWritten ==
    (/\ pc = "done"
     /\ Cardinality(ForcedLines) <= args.sample_count
     /\ DrawsPositive) =>
        \A l \in ForcedLines :
            \E j \in 1..Len(heap) : heap[j] = l /\ OutRows[j] = l.record

\* C6: a row that is neither included nor excluded and whose weight is exactly
\* zero is never admitted to the selector (the run fails instead), so no run
\* that read one completes.  Stated for a positive sample count and strictly
\* positive key draws.
C6_ZeroWeightRejected ==
    (args.sample_count >= 1 /\ DrawsPositive) =>
        \A l \in Offered :
            IdOf(l) \notin include => ~(IsZero(l.weight) /\ pc = "done")

\* the run failed while writing to the output sink, after the whole stream
\* was consumed
FailedWriting == pc = "failed" /\ err = "io"

C9_ZeroCountRejected ==
    args.sample_count = 0 => pc \in {"init", "failed"} /\ nread = 0

\* C9 amended: a run with sample count 0 is not rejected for it: it streams
\* like any other run.  Every candidate pushed is popped by the eviction that
\* follows, so nothing is held between rows, and a run that completes writes
\* the header and no row.
C9_ZeroCountKeepsNothing ==
    args.sample_count = 0 =>
        /\ BetweenRecords => heap = <<>> /\ Cardinality(dropped) = i
        /\ pc = "done" => out = <<args.file>>

\* a run with sample count 0 that offered rows and completed
C9_Witness ==
    /\ args.sample_count = 0
    /\ pc = "done"
    /\ i >= 2
    /\ out = <<args.file>>

\* the name does not occur in the header row
Absent(name, headers) == \A j \in 1..Len(headers) : headers[j] # name

\* the command line names a weight or identifier column the file lacks
UnresolvedColumn ==
    \/ args.weights # None /\ Absent(args.weights[1], args.file)
    \/ args.id_col # None /\ Absent(args.id_col[1], args.file)

\* C10: when the weight or identifier column named on the command line is
\* not in the header, the run never leaves Init except by failing: no row is
\* read, no candidate is held and nothing is written.
C10_UnresolvedColumnFails ==
    UnresolvedColumn =>
        /\ pc \in {"init", "failed"}
        /\ nread = 0
        /\ heap = <<>>
        /\ out = <<>>

\* a run that failed on an identifier column the header lacks, its weight
\* column resolved
C10_Witness ==
    /\ pc = "failed"
    /\ err = "panic: Id column not found"
    /\ args.weights # None
    /\ weight_col = Some(1)
    /\ nread = 0

(* --------------------------- claims, continued ------------------------ *)

\* positions of the rows read so far
Pos == 1..Len(stream)

RowId(p) == stream[p].record[id_col + 1]

\* the Identity Filter's classes
RowExcluded(p) == RowId(p) \in exclude
RowForced(p) == RowId(p) \in include /\ RowId(p) \notin exclude
RowNormal(p) == RowId(p) \notin include /\ RowId(p) \notin exclude

\* the candidate built for row p, when one was
RowLine(p) == CHOOSE l \in Offered : l.tie_breaker = stream[p].idx[1]

\* row p has a weight text that does not parse as a number
RowWeightUnusable(p) ==
    /\ weight_col # None
    /\ ParseF64(stream[p].record[weight_col[1] + 1]) = None

\* C11: with a weight column configured, once a Normal row whose weight is
\* missing or unparseable has been read the run has failed, and no candidate
\* was offered for that row, whatever the key draw.
C11_UnusableWeightFails ==
    \A p \in Pos :
        (RowNormal(p) /\ RowWeightUnusable(p)) =>
            pc = "failed" /\ stream[p].idx = None

\* C12: sampling is without replacement.  A completed run has written one row
\* per candidate held; the rows written come from pairwise different positions
\* of the input stream, and each is the record of a row that was read there
\* and is not excluded.
C12_WithoutReplacement ==
    pc = "done" =>
        /\ Len(OutRows) = Len(heap)
        /\ \A j \in 1..Len(heap) :
               /\ OutRows[j] = heap[j].record
               /\ \E p \in Pos :
                      /\ stream[p] = [record |-> OutRows[j], idx |-> Some(heap[j].tie_breaker)]
                      /\ ~RowExcluded(p)
               /\ \A k \in 1..Len(heap) :
                      j # k => heap[j].tie_breaker # heap[k].tie_breaker
        /\ \A p, q \in Pos :
               (p # q /\ stream[p].idx # None) => stream[p].idx # stream[q].idx

\* a completed run that skipped a row, evicted a row and wrote a row
C12_Witness ==
    /\ pc = "done"
    /\ Len(OutRows) >= 1
    /\ dropped # {}
    /\ \E p \in Pos : RowExcluded(p)

\* at pc = "evict": the candidate just pushed, and the ones held before it
Newest == CHOOSE l \in Retained : l.tie_breaker = i - 1
Others == Retained \ {Newest}

KeyLt(a, b) == FLt(a.position_index, b.position_index)
KeyEq(a, b) == FEq(a.position_index, b.position_index)
KeyLe(a, b) == KeyLt(a, b) \/ KeyEq(a, b)

\* a full selector has just been pushed to
OfferToFull ==
    /\ pc = "evict"
    /\ args.sample_count >= 1
    /\ Len(heap) = args.sample_count + 1

Pushed == heap'[CHOOSE j \in 1..Len(heap') : heap'[j].tie_breaker = i]

\* C14: whenever the keys of two candidates that are compared cannot be
\* strictly ordered, equal or NaN, the comparison draws a coin: a push onto a
\* selector of one, which compares the two once, consumes one tie-break draw.
\* Stated for strictly positive key draws.
C14_UnorderedKeysFlipCoin ==
    [][(/\ pc = "stream"
        /\ DrawsPositive'
        /\ pc' = "evict"
        /\ Len(heap) = 1
        /\ ~KeyLt(heap[1], Pushed)
        /\ ~KeyLt(Pushed, heap[1]))
       => rng_calls'.tie = rng_calls.tie + 1]_vars

\* C15 as stated: the arrival index of a candidate is the position of its row
\* in the input stream, counted from 0, whatever rows were excluded before.
C15_IndexIsStreamPosition ==
    \A p \in Pos : stream[p].idx # None => stream[p].idx[1] = p - 1

\* C15 amended: the arrival index of a candidate is the number of rows read
\* before its row that were not excluded, so it grows strictly from one
\* offered row to the next and an excluded row does not advance it.
C15_IndexCountsOfferedRows ==
    LET kept == {p \in Pos : RowId(p) \notin exclude} IN
    \A p \in Pos :
        stream[p].idx # None =>
            /\ stream[p].idx[1] = Cardinality({q \in kept : q < p})
            /\ \A q \in 1..(p - 1) :
                   stream[q].idx # None => stream[q].idx[1] < stream[p].idx[1]

\* a row offered after an excluded row and an offered row
C15_Witness ==
    /\ Len(stream) = 3
    /\ RowExcluded(1)
    /\ stream[2].idx = Some(0)
    /\ stream[3].idx = Some(1)

\* C16: the sentinel key of a forced include compares strictly greater than
\* the key of every Normal row admitted to the selector.  Stated for strictly
\* positive key draws.
C16_SentinelOutranksNormalKeys ==
    DrawsPositive =>
        \A p \in Pos :
            (RowNormal(p) /\ stream[p].idx # None) =>
                FGt(PInf, RowLine(p).position_index)

\* C17 as stated: the key draws taken so far number the Normal rows read.
C17_OneDrawPerNormalRow ==
    rng_calls.key = Cardinality({p \in Pos : RowNormal(p)})

\* C17 amended: the key draws taken so far number the rows read that were
\* not excluded, Normal and ForcedInclude alike; an excluded row takes none.
C17_OneDrawPerRowNotExcluded ==
    rng_calls.key = Cardinality({p \in Pos : ~RowExcluded(p)})

\* a Normal row and a ForcedInclude row were read, and nothing else
C17_Witness ==
    /\ Len(stream) = 2
    /\ \E p \in Pos : RowNormal(p)
    /\ \E p \in Pos : RowForced(p)
    /\ rng_calls.key = 2

\* the run stopped on the zero-key check of line 152
WeightPanic == pc = "failed" /\ err = "panic: Non-zero weights required"

\* C18: a ForcedInclude row never causes a weight error.  Every forced row
\* read was offered with the sentinel key, whatever its weight text, and a run
\* that stopped on the weight check stopped on a row that is not forced.
C18_ForcedIncludeNeverWeightError ==
    /\ \A p \in Pos :
           RowForced(p) =>
               /\ stream[p].idx # None
               /\ RowLine(p).position_index = PInf
    /\ WeightPanic => ~RowForced(Len(stream))

\* a forced row with a missing weight was offered and the run completed
C18_Witness ==
    /\ pc = "done"
    /\ \E p \in Pos :
          /\ RowForced(p)
          /\ RowWeightUnusable(p)
          /\ RowLine(p).position_index = PInf

\* the position of a phase in the order Init, Streaming, Finalizing, Done
PhaseRank ==
    CASE pc = "init" -> 0
      [] pc \in {"stream", "evict"} -> 1
      [] pc = "final" -> 2
      [] pc = "done" -> 3
      [] pc = "failed" -> 4

Stopped == pc \in {"done", "failed"}

\* an upper bound on the steps a run can still take over a stream of at most
\* MaxLen rows
StepsLeft ==
    CASE pc = "init" -> 2 * MaxLen + 4
      [] pc = "stream" -> 2 * (MaxLen - nread) + 3
      [] pc = "evict" -> 2 * (MaxLen - nread) + 4
      [] pc = "final" -> 1
      [] Stopped -> 0

\* C19: the phases are entered in the order Init, Streaming, Finalizing, Done
\* and never returned to, a fatal error being final; every step reads at most
\* one row, the next one of the stream, and never rereads; and every run over
\* a finite stream reaches Done or stops with a fatal error: a run that has
\* not stopped can always take a step (the setup, the eviction check, the end
\* of the stream or the writing, according to where it is), and every step
\* brings the run strictly closer to its end.
C19_PhasesInOrderAndRunEnds ==
    /\ [](~Stopped => ENABLED (Setup \/ Evict \/ EndOfStream \/ WriteOutput))
    /\ [][/\ PhaseRank' >= PhaseRank
          /\ PhaseRank' <= PhaseRank + 1 \/ pc' = "failed"
          /\ ~Stopped
          /\ nread' \in {nread, nread + 1}
          /\ \/ stream' = stream
             \/ /\ nread' = nread + 1
                /\ Len(stream') = Len(stream) + 1
                /\ SubSeq(stream', 1, Len(stream)) = stream
          /\ nread' = nread + 1 => pc = "stream"
          /\ StepsLeft >= 0
          /\ StepsLeft' < StepsLeft]_vars

\* a run that went through every phase and read the whole stream
C19_Witness ==
    /\ pc = "done"
    /\ nread = MaxLen
    /\ Len(stream) = MaxLen


====
